---- MODULE Spec2Model ----
(***************************************************************************)
(* Model of backend/app.py: the Demucs vocal separation service.           *)
(*                                                                         *)
(* Each request (job) is handled by one of the two tool-running handlers,  *)
(* separate_vocals and analyze_vocals.  A handler validates the upload,    *)
(* creates two temporary directories, blocks in subprocess.run, and then   *)
(* searches the output tree and builds its response.  Strings that the     *)
(* code inspects (file names, paths) are sequences of one-character        *)
(* strings, so that lower(), `in` and endswith() are computed.             *)
(***************************************************************************)
EXTENDS Integers, Sequences, FiniteSets, TLC

(***************************************************************************)
(* Bounds of the model.                                                    *)
(***************************************************************************)
\* number of requests that may be in flight
NumJobs == 2
\* number of files the tool leaves in the output tree
MaxFiles == 3

(***************************************************************************)
(* Program constants.                                                      *)
(***************************************************************************)
\* 1024 * 1024, the divisor of the size report
BYTES_PER_MB == 1048576
\* timeout=600 of subprocess.run, in seconds
TIMEOUT_SECONDS == 600
\* UPLOAD_FOLDER = tempfile.mkdtemp(), made when the module is imported and
\* never removed
UPLOAD_FOLDER == 1

None == "None"
\* no path: vocal_file = None
NoPath == <<>>
\* no directory: input_dir / output_dir before tempfile.mkdtemp()
NoDir == 0

Jobs == 1..NumJobs
\* tempfile.mkdtemp draws from a name space that is never exhausted
DirNames == 1..(2 * NumJobs + 1)

(***************************************************************************)
(* Strings.                                                                *)
(***************************************************************************)
UpperChars == <<"A","B","C","D","E","F","G","H","I","J","K","L","M",
                "N","O","P","Q","R","S","T","U","V","W","X","Y","Z">>
LowerChars == <<"a","b","c","d","e","f","g","h","i","j","k","l","m",
                "n","o","p","q","r","s","t","u","v","w","x","y","z">>
DigitChars == <<"1","2","3","4","5","6","7","8","9">>

\* str.lower() on one character
LowerChar(c) ==
    IF \E i \in 1..Len(UpperChars) : UpperChars[i] = c
    THEN LowerChars[CHOOSE i \in 1..Len(UpperChars) : UpperChars[i] = c]
    ELSE c

\* str.lower()
Lower(s) == [i \in 1..Len(s) |-> LowerChar(s[i])]

\* sub in s
Contains(s, sub) ==
    \E i \in 1..(Len(s) - Len(sub) + 1) : SubSeq(s, i, i + Len(sub) - 1) = sub

\* s.endswith(suf)
EndsWith(s, suf) ==
    /\ Len(s) >= Len(suf)
    /\ SubSeq(s, Len(s) - Len(suf) + 1, Len(s)) = suf

\* os.path.join(root, file_name)
PathJoin(root, file_name) == root \o <<"/">> \o file_name

S_vocals == <<"v","o","c","a","l","s">>
S_mp3 == <<".","m","p","3">>
S_wav == <<".","w","a","v">>
S_vocals_mp3 == <<"v","o","c","a","l","s",".","m","p","3">>
S_no_vocals == <<"n","o","_","v","o","c","a","l","s">>
S_no_vocals_mp3 == <<"n","o","_","v","o","c","a","l","s",".","m","p","3">>

(***************************************************************************)
(* File names the external tool may leave behind, with their sizes in      *)
(* bytes (what os.path.getsize returns for them).                          *)
(***************************************************************************)
F_vocals_mp3 == [name |-> S_vocals_mp3, size |-> 2202010]
F_no_vocals_mp3 == [name |-> S_no_vocals_mp3, size |-> 3565158]
F_Vocals_WAV == [name |-> <<"V","o","c","a","l","s",".","W","A","V">>, size |-> 4194304]
F_drums_mp3 == [name |-> <<"d","r","u","m","s",".","m","p","3">>, size |-> 1048576]
F_notes_txt == [name |-> <<"n","o","t","e","s",".","t","x","t">>, size |-> 131072]

Files == {F_vocals_mp3, F_no_vocals_mp3, F_Vocals_WAV, F_drums_mp3, F_notes_txt}

(***************************************************************************)
(* The output tree as os.walk(output_dir) yields it: the output directory  *)
(* first, then the per-track subdirectory, each with its files in          *)
(* directory-listing order.                                                *)
(***************************************************************************)
S_track == <<"t","r","a","c","k">>

\* the listings of one directory: files in any order, no name twice
FileSeqs ==
    UNION { { s \in [1..k -> Files] : \A a, b \in 1..k : a # b => s[a] # s[b] }
            : k \in 0..MaxFiles }

Trees ==
    { <<[sub |-> <<>>, files |-> f1], [sub |-> S_track, files |-> f2]>> :
        <<f1, f2>> \in { p \in FileSeqs \X FileSeqs : Len(p[1]) + Len(p[2]) <= MaxFiles } }

\* the path tempfile.mkdtemp returned for directory d
DirPath(d) == <<"/","t","m","p","/","t", DigitChars[d]>>

\* `root` of one os.walk entry
WalkRoot(out_dir, entry) ==
    IF entry.sub = <<>> THEN DirPath(out_dir) ELSE PathJoin(DirPath(out_dir), entry.sub)

\* the (file_name, full_path) pairs of one directory, in listing order
DirEntries(out_dir, entry) ==
    [i \in 1..Len(entry.files) |->
        [file_name |-> entry.files[i].name,
         full_path |-> PathJoin(WalkRoot(out_dir, entry), entry.files[i].name),
         size |-> entry.files[i].size]]

\* every file of the tree in traversal order: the nested for loops over os.walk
RECURSIVE WalkEntries(_, _)
WalkEntries(out_dir, walk) ==
    IF walk = <<>> THEN <<>>
    ELSE DirEntries(out_dir, Head(walk)) \o WalkEntries(out_dir, Tail(walk))

MinOf(S) == CHOOSE x \in S : \A y \in S : x <= y
MaxOf(S) == CHOOSE x \in S : \A y \in S : x >= y

\* os.path.getsize(path) for a file of the tree
GetSize(entries, path) ==
    LET i == CHOOSE k \in 1..Len(entries) : entries[k].full_path = path
    IN entries[i].size

(***************************************************************************)
(* separate_vocals: the search for the vocal stem.                         *)
(***************************************************************************)
\* the test of line 118 on one file name
IsVocalName(file_name) ==
    /\ Contains(Lower(file_name), S_vocals)
    /\ (EndsWith(file_name, S_mp3) \/ EndsWith(file_name, S_wav))

\* a fallback that takes any file, whatever its extension
IsAudioPath_AnyFile(f) == TRUE

\* the test of line 130 on one full path
IsAudioPath(f) == EndsWith(f, S_mp3) \/ EndsWith(f, S_wav)

\* the walk with its two breaks: the first file in traversal order that passes
\* the name test
FindByName(entries) ==
    LET hits == { i \in 1..Len(entries) : IsVocalName(entries[i].file_name) }
    IN IF hits = {} THEN NoPath ELSE entries[MinOf(hits)].full_path

\* the fallback loop over all_files (every file was listed: no break was taken)
FindFallback(entries) ==
    LET hits == { i \in 1..Len(entries) : IsAudioPath(entries[i].full_path) }
    IN IF hits = {} THEN NoPath ELSE entries[MinOf(hits)].full_path

\* vocal_file after both loops, and which loop set it
LocateVocal(entries) ==
    LET byName == FindByName(entries)
        fallback == FindFallback(entries)
    IN IF byName # NoPath THEN [vocal_file |-> byName, via |-> "name"]
       ELSE IF fallback # NoPath THEN [vocal_file |-> fallback, via |-> "fallback"]
       ELSE [vocal_file |-> NoPath, via |-> None]

(***************************************************************************)
(* analyze_vocals: the search for both stems and the size report.          *)
(***************************************************************************)
\* the if branch of line 220
IsAnalyzeVocal(file_name) == Contains(file_name, S_vocals_mp3)

\* the elif branch of line 222, taken only when the if branch was not
IsAnalyzeAccompaniment(file_name) ==
    /\ ~Contains(file_name, S_vocals_mp3)
    /\ Contains(file_name, S_no_vocals_mp3)

\* the loops run to the end: the last assignment stands
AnalyzeSearch(entries) ==
    LET v == { i \in 1..Len(entries) : IsAnalyzeVocal(entries[i].file_name) }
        a == { i \in 1..Len(entries) : IsAnalyzeAccompaniment(entries[i].file_name) }
    IN [vocal_file |-> IF v = {} THEN NoPath ELSE entries[MaxOf(v)].full_path,
        accompaniment_file |-> IF a = {} THEN NoPath ELSE entries[MaxOf(a)].full_path]

\* round(size / (1024 * 1024), 2), in hundredths of a megabyte (the quotient is
\* exact in binary floating point, so round() rounds the true value, ties to even)
RoundMB(size) ==
    LET q == (size * 100) \div BYTES_PER_MB
        r == (size * 100) % BYTES_PER_MB
    IN IF 2 * r > BYTES_PER_MB \/ (2 * r = BYTES_PER_MB /\ q % 2 = 1) THEN q + 1 ELSE q

\* analysis_result, lines 225-238
AnalysisResult(entries, input_size) ==
    LET found == AnalyzeSearch(entries)
        vocal_size == IF found.vocal_file # NoPath
                      THEN GetSize(entries, found.vocal_file) ELSE 0
        accompaniment_size == IF found.accompaniment_file # NoPath
                              THEN GetSize(entries, found.accompaniment_file) ELSE 0
    IN [success |-> TRUE,
        input_size_mb |-> RoundMB(input_size),
        vocal_size_mb |-> RoundMB(vocal_size),
        accompaniment_size_mb |-> RoundMB(accompaniment_size),
        vocal_extracted |-> found.vocal_file # NoPath]

(***************************************************************************)
(* Requests, tool results and responses.                                   *)
(***************************************************************************)
Endpoints == {"separate-vocals", "analyze-vocals"}

\* request.files: no `audio` field, an empty filename, or an upload (size in bytes)
\* no request has arrived
NoRequest == [has_audio |-> FALSE, filename |-> None, size |-> 0]

Requests ==
    { [has_audio |-> FALSE, filename |-> None, size |-> 0],
      [has_audio |-> TRUE, filename |-> "", size |-> 0],
      [has_audio |-> TRUE, filename |-> "song.wav", size |-> 5242880] }

\* what subprocess.run returns when the tool exits before the deadline
ToolResults ==
    { [returned |-> TRUE, returncode |-> 0, stderr |-> ""],
      [returned |-> TRUE, returncode |-> 1, stderr |-> "RuntimeError: CUDA out of memory"] }

\* subprocess.run has not returned
NoResult == [returned |-> FALSE, returncode |-> 0, stderr |-> ""]

\* no analysis_result was built
NoReport == [success |-> FALSE, input_size_mb |-> 0, vocal_size_mb |-> 0,
             accompaniment_size_mb |-> 0, vocal_extracted |-> FALSE]

\* str(e) of the exceptions the try block can raise
SaveErrorMessage == "[Errno 28] No space left on device"
LaunchErrorMessage == "[Errno 2] No such file or directory: 'python'"
\* the same path as a string
DirString(d) == "/tmp/t" \o ToString(d)

\* str(e) of subprocess.TimeoutExpired: the command list and the timeout
TimeoutMessage(in_d, out_d) ==
    "Command '['python', '-m', 'demucs.separate', '-n', 'htdemucs_ft', '-o', '"
    \o DirString(out_d)
    \o "', '--filename', '{track}/{stem}.{ext}', '--mp3', '--mp3-bitrate', '192', '"
    \o DirString(in_d)
    \o "/input_audio.wav']' timed out after "
    \o ToString(TIMEOUT_SECONDS) \o " seconds"

\* the server's answer when an exception leaves a handler: 500, no JSON body
UnhandledException ==
    [status |-> 500, error |-> None, details |-> None,
     file |-> NoPath, report |-> NoReport]

\* no response yet (status 0)
NoResponse == [status |-> 0, error |-> None, details |-> None,
               file |-> NoPath, report |-> NoReport]

JsonError(status, error, details) ==
    [status |-> status, error |-> error, details |-> details,
     file |-> NoPath, report |-> NoReport]

NoLocated == [vocal_file |-> NoPath, accompaniment_file |-> NoPath, via |-> None]

\* ValidateUpload without its second check (an empty filename goes on)
ValidateUpload_NoFilenameCheck(req) ==
    IF ~req.has_audio THEN JsonError(400, "No audio file provided", None)
    ELSE NoResponse

\* the two checks that open both handlers: the 400 response, or NoResponse to go on
ValidateUpload(req) ==
    IF ~req.has_audio THEN JsonError(400, "No audio file provided", None)
    ELSE IF req.filename = "" THEN JsonError(400, "No file selected", None)
    ELSE NoResponse

(***************************************************************************)
(* cleanup_temp_files on the set of directories that exist.  rm_ok is      *)
(* whether shutil.rmtree succeeds; a failure is caught and logged.         *)
(***************************************************************************)
\* the try body: os.path.exists, then shutil.rmtree, which removes the tree or
\* raises and leaves the directory
RmtreeIfExists(dirs, folder_path, rm_ok) ==
    IF folder_path \in dirs
    THEN IF rm_ok THEN [dirs |-> dirs \ {folder_path}, exception |-> FALSE]
                  ELSE [dirs |-> dirs, exception |-> TRUE]
    ELSE [dirs |-> dirs, exception |-> FALSE]

\* cleanup_temp_files without its except clause: the exception propagates
cleanup_temp_files_NoExcept(dirs, folder_path, rm_ok) ==
    LET body == RmtreeIfExists(dirs, folder_path, rm_ok)
    IN [dirs |-> body.dirs, warned |-> 0, raised |-> body.exception]

\* `except Exception` turns an exception of the body into one logger.warning
cleanup_temp_files(dirs, folder_path, rm_ok) ==
    LET body == RmtreeIfExists(dirs, folder_path, rm_ok)
    IN [dirs |-> body.dirs,
        warned |-> IF body.exception THEN 1 ELSE 0,
        raised |-> FALSE]

(***************************************************************************)
(* separate_vocals from the return of subprocess.run to its own return.    *)
(* `cleanup` is when the handler releases the workspace: "now" (before it  *)
(* returns), "on_close" (registered with response.call_on_close), "both"   *)
(* or "none" (it returns without releasing).                               *)
(***************************************************************************)
\* a returncode check that lets every result through
ToolFailed_NeverChecked(res) == FALSE

\* if result.returncode != 0 (lines 94 and 211)
ToolFailed(res) == res.returncode # 0

\* a non-zero exit that leaves the job running again (a retry)
ToolOutcome_RetryOnFailure(res) ==
    IF res.returncode = 0 THEN "Success" ELSE "Running"

\* the outcome of an invocation that returned before the deadline
ToolOutcome(res) == IF res.returncode = 0 THEN "Success" ELSE "ToolFailure"

\* a timeout that raises without killing the child
ToolStateOnTimeout_LeftRunning == "Running"

\* subprocess.run(..., timeout=600) kills the child and waits for it before it
\* raises TimeoutExpired
ToolStateOnTimeout == "Timeout"

\* a name generator that does not look at the directories that exist
FreshDirs_AnyName(dirs) == DirNames

\* tempfile.mkdtemp creates a directory that did not exist
FreshDirs(dirs) == DirNames \ dirs

\* the cleanup of the file response released before the handler returns
StreamCleanup_BeforeReturn == "now"

\* the cleanup of the file response run before the return and again on close
StreamCleanup_Twice == "both"

\* the report returned without releasing the workspace
SummaryCleanup_Missing == "none"

\* when the workspace of a report is released: the two cleanup_temp_files calls
\* before `return jsonify(analysis_result)`
SummaryCleanup == "now"

\* when the workspace of a file response is released: cleanup() is registered
\* with response.call_on_close
StreamCleanup == "on_close"

SeparateAfterRun(res, entries, out_exists) ==
    IF ToolFailed(res)
    THEN [response |-> JsonError(500, "Vocal separation failed", res.stderr),
          located |-> NoLocated, searched |-> FALSE, cleanup |-> "none"]
    ELSE LET found == LocateVocal(entries)
         IN IF found.vocal_file = NoPath \/ ~out_exists
            THEN [response |-> JsonError(500, "Vocal stem extraction failed", None),
                  located |-> [vocal_file |-> found.vocal_file,
                               accompaniment_file |-> NoPath, via |-> found.via],
                  searched |-> TRUE, cleanup |-> "none"]
            ELSE [response |-> [status |-> 200, error |-> None, details |-> None,
                                file |-> found.vocal_file, report |-> NoReport],
                  located |-> [vocal_file |-> found.vocal_file,
                               accompaniment_file |-> NoPath, via |-> found.via],
                  searched |-> TRUE, cleanup |-> StreamCleanup]

\* except subprocess.TimeoutExpired
SeparateOnTimeout ==
    [response |-> JsonError(408, "Processing timeout - file too large", None),
     located |-> NoLocated, searched |-> FALSE, cleanup |-> "now"]

\* except Exception
SeparateOnException(message) ==
    [response |-> JsonError(500, "Internal server error", message),
     located |-> NoLocated, searched |-> FALSE, cleanup |-> "now"]

(***************************************************************************)
(* analyze_vocals from the return of subprocess.run to its own return.     *)
(***************************************************************************)
AnalyzeAfterRun(res, entries, input_size) ==
    IF ToolFailed(res)
    THEN [response |-> JsonError(500, "Vocal separation failed", None),
          located |-> NoLocated, searched |-> FALSE, cleanup |-> "none"]
    ELSE LET found == AnalyzeSearch(entries)
         IN [response |-> [status |-> 200, error |-> None, details |-> None,
                           file |-> NoPath,
                           report |-> AnalysisResult(entries, input_size)],
             located |-> [vocal_file |-> found.vocal_file,
                          accompaniment_file |-> found.accompaniment_file,
                          via |-> IF found.vocal_file = NoPath THEN None ELSE "name"],
             searched |-> TRUE, cleanup |-> SummaryCleanup]

\* except Exception: the only handler, so subprocess.TimeoutExpired lands here too
AnalyzeOnException(message) ==
    [response |-> JsonError(500, "Analysis failed", message),
     located |-> NoLocated, searched |-> FALSE, cleanup |-> "now"]

AnalyzeOnTimeout(in_d, out_d) == AnalyzeOnException(TimeoutMessage(in_d, out_d))

(***************************************************************************)
(* State.                                                                  *)
(***************************************************************************)
VARIABLES
    pc,          \* where each request is: "idle", "acquiring" (between the two
                 \* mkdtemp calls), "running" (in subprocess.run),
                 \* "cleanup_input" (the handler is about to call
                 \* cleanup_temp_files(input_dir)), "cleanup_output" (between
                 \* its two cleanup_temp_files calls), "sending" (response
                 \* returned, file transfer in progress), "sent" (transfer
                 \* over, cleanup() not entered), "close_input" and
                 \* "close_output" (the same two calls in cleanup()),
                 \* "done"
    endpoint,    \* the route of each request
    request,     \* its upload
    input_dir,   \* the handler's local input_dir (NoDir before mkdtemp)
    output_dir,  \* the handler's local output_dir
    fs,          \* the temporary directories that exist
    tool,        \* the child process: "Idle", "Running", "Success",
                 \* "ToolFailure", "Timeout" (killed), "LaunchError"
    result,      \* what subprocess.run returned
    walk,        \* the output tree the tool left
    located,     \* vocal_file / accompaniment_file after the search
    searched,    \* whether the handler walked the output tree
    pending,     \* what the handler is about to return, while it cleans up
    response,    \* the response the handler returned
    on_close,    \* whether cleanup is registered with response.call_on_close
    transfer,    \* how the file transfer ended: None, "complete", "abort"
    released,    \* calls of cleanup_temp_files on input_dir and on output_dir
    warnings,    \* logger.warning calls of cleanup_temp_files
    launches,    \* calls of subprocess.run
    analysis_result, \* the handler's local analysis_result
    cleanup_call \* cleanup_temp_files called on its own, outside a handler:
                 \* the directories before the first call and now, the
                 \* argument, the calls made and what each one did

vars == <<pc, endpoint, request, input_dir, output_dir, fs, tool, result, walk,
          located, searched, pending, response, on_close, transfer, released,
          warnings, launches, analysis_result, cleanup_call>>

\* cleanup_temp_files has not been called on its own
NoCall == [before |-> {}, folder_path |-> NoDir, dirs |-> {}, once |-> {},
           calls |-> 0, rm |-> <<>>, warned |-> 0, raised |-> FALSE]

\* the handler has nothing to return yet
NoPending == [response |-> NoResponse, located |-> NoLocated, searched |-> FALSE,
              cleanup |-> "none"]

\* the server is up and no request has arrived: the import of the module has
\* created UPLOAD_FOLDER
NoRequests ==
    /\ pc = [j \in Jobs |-> "idle"]
    /\ endpoint = [j \in Jobs |-> None]
    /\ request = [j \in Jobs |-> NoRequest]
    /\ input_dir = [j \in Jobs |-> NoDir]
    /\ output_dir = [j \in Jobs |-> NoDir]
    /\ fs = {UPLOAD_FOLDER}
    /\ tool = [j \in Jobs |-> "Idle"]
    /\ result = [j \in Jobs |-> NoResult]
    /\ walk = [j \in Jobs |-> <<>>]
    /\ located = [j \in Jobs |-> NoLocated]
    /\ searched = [j \in Jobs |-> FALSE]
    /\ pending = [j \in Jobs |-> NoPending]
    /\ response = [j \in Jobs |-> NoResponse]
    /\ on_close = [j \in Jobs |-> FALSE]
    /\ transfer = [j \in Jobs |-> None]
    /\ released = [j \in Jobs |-> [input |-> 0, output |-> 0]]
    /\ warnings = [j \in Jobs |-> 0]
    /\ launches = [j \in Jobs |-> 0]
    /\ analysis_result = [j \in Jobs |-> NoReport]

Init ==
    /\ NoRequests
    /\ cleanup_call = NoCall

\* the names tempfile.mkdtemp has handed out so far (the handlers keep them in
\* input_dir and output_dir after the directories are removed)
UsedNames ==
    (fs \cup { input_dir[k] : k \in Jobs } \cup { output_dir[k] : k \in Jobs })
        \ {NoDir}

\* The names tempfile.mkdtemp may return when the directories `dirs` exist and
\* the names `used` were handed out before: any name that does not exist.  It
\* is a name handed out before and removed since, or a name never handed out;
\* the handlers never look at the name, so of the names never handed out one
\* representative is followed, the least.
MkdtempNames(dirs, used) ==
    LET free == FreshDirs(dirs)
        new == free \ used
    IN (free \cap used) \cup (IF new = {} THEN {} ELSE {MinOf(new)})

\* the handler returns out.response; a file response registers its cleanup
Return(j, out) ==
    /\ response' = [response EXCEPT ![j] = out.response]
    /\ on_close' = [on_close EXCEPT ![j] = (out.cleanup \in {"on_close", "both"})]
    /\ pc' = [pc EXCEPT ![j] = IF out.response.file # NoPath THEN "sending" ELSE "done"]

\* the handler knows what it will return: it goes on to its two
\* cleanup_temp_files calls when it has them before the return, else it returns
Proceed(j, out) ==
    /\ located' = [located EXCEPT ![j] = out.located]
    /\ searched' = [searched EXCEPT ![j] = out.searched]
    /\ pending' = [pending EXCEPT ![j] = out]
    /\ IF out.cleanup \in {"now", "both"}
       THEN /\ pc' = [pc EXCEPT ![j] = "cleanup_input"]
            /\ UNCHANGED <<response, on_close>>
       ELSE Return(j, out)

(***************************************************************************)
(* A request arrives: the upload is validated and input_dir is created.    *)
(* The environment of the handlers is the parameter `env` of the actions:  *)
(* env.endpoints are the routes requested, env.requests the uploads,       *)
(* env.mkdtemp_ok whether tempfile.mkdtemp returns or raises, env.saves    *)
(* whether the upload is saved, env.results and env.trees what the tool    *)
(* returns and leaves, env.rms the outcomes of shutil.rmtree (TRUE:        *)
(* removed, FALSE: it raises), env.transfers how a transfer ends.          *)
(* mkdtemp is called before the try block: when it raises, the exception   *)
(* leaves the handler and the server answers 500.                          *)
(***************************************************************************)
Receive(j, env) ==
    /\ pc[j] = "idle"
    /\ \E ep \in env.endpoints, req \in env.requests :
        /\ endpoint' = [endpoint EXCEPT ![j] = ep]
        /\ request' = [request EXCEPT ![j] = req]
        /\ IF ValidateUpload(req) # NoResponse
           THEN /\ response' = [response EXCEPT ![j] = ValidateUpload(req)]
                /\ pc' = [pc EXCEPT ![j] = "done"]
                /\ UNCHANGED <<input_dir, fs>>
           ELSE \E ok \in env.mkdtemp_ok :
                    IF ok
                    THEN /\ \E d \in MkdtempNames(fs, UsedNames) :
                              /\ input_dir' = [input_dir EXCEPT ![j] = d]
                              /\ fs' = fs \cup {d}
                         /\ pc' = [pc EXCEPT ![j] = "acquiring"]
                         /\ UNCHANGED response
                    ELSE /\ response' = [response EXCEPT ![j] = UnhandledException]
                         /\ pc' = [pc EXCEPT ![j] = "done"]
                         /\ UNCHANGED <<input_dir, fs>>
    /\ UNCHANGED <<output_dir, tool, result, walk, located, searched, pending,
                   on_close, transfer, released, warnings, launches,
                   analysis_result, cleanup_call>>

(***************************************************************************)
(* output_dir is created (or mkdtemp raises, which leaves input_dir        *)
(* behind); inside the try block the upload is saved, which may raise, and *)
(* subprocess.run is called.                                               *)
(***************************************************************************)
Stage(j, env) ==
    /\ pc[j] = "acquiring"
    /\ \E ok \in env.mkdtemp_ok :
        IF ok
        THEN \E d \in MkdtempNames(fs, UsedNames), how \in env.saves :
                /\ output_dir' = [output_dir EXCEPT ![j] = d]
                /\ fs' = fs \cup {d}
                /\ IF how = "started"
                   THEN /\ tool' = [tool EXCEPT ![j] = "Running"]
                        /\ launches' = [launches EXCEPT ![j] = @ + 1]
                        /\ pc' = [pc EXCEPT ![j] = "running"]
                        /\ UNCHANGED <<response, located, searched, pending, on_close>>
                   ELSE /\ UNCHANGED <<tool, launches>>
                        /\ Proceed(j, IF endpoint[j] = "separate-vocals"
                                      THEN SeparateOnException(SaveErrorMessage)
                                      ELSE AnalyzeOnException(SaveErrorMessage))
        ELSE /\ response' = [response EXCEPT ![j] = UnhandledException]
             /\ pc' = [pc EXCEPT ![j] = "done"]
             /\ UNCHANGED <<output_dir, fs, tool, launches, located, searched,
                            pending, on_close>>
    /\ UNCHANGED <<endpoint, request, input_dir, result, walk, transfer, released,
                   warnings, analysis_result, cleanup_call>>

(***************************************************************************)
(* subprocess.run cannot start the tool (no such binary, permission        *)
(* denied): it raises, and the handler's `except Exception` clause runs.   *)
(***************************************************************************)
ToolLaunchError(j) ==
    /\ pc[j] = "running"
    /\ tool' = [tool EXCEPT ![j] = "LaunchError"]
    /\ Proceed(j, IF endpoint[j] = "separate-vocals"
                  THEN SeparateOnException(LaunchErrorMessage)
                  ELSE AnalyzeOnException(LaunchErrorMessage))
    /\ UNCHANGED <<endpoint, request, input_dir, output_dir, fs, result, walk,
                   transfer, released, warnings, launches, analysis_result,
                   cleanup_call>>

(***************************************************************************)
(* The tool exits before the deadline: subprocess.run returns, and the     *)
(* handler runs up to its return or, in analyze_vocals after exit code 0,  *)
(* up to its first cleanup_temp_files call (it has searched the tree, read *)
(* the sizes and built analysis_result).                                   *)
(***************************************************************************)
ToolExit(j, env) ==
    /\ pc[j] = "running"
    /\ \E res \in env.results, tree \in env.trees :
        LET entries == WalkEntries(output_dir[j], tree)
            out == IF endpoint[j] = "separate-vocals"
                   THEN SeparateAfterRun(res, entries, output_dir[j] \in fs)
                   ELSE AnalyzeAfterRun(res, entries, request[j].size)
        IN /\ tool' = [tool EXCEPT ![j] = ToolOutcome(res)]
           /\ result' = [result EXCEPT ![j] = res]
           /\ walk' = [walk EXCEPT ![j] = tree]
           /\ analysis_result' =
                  [analysis_result EXCEPT ![j] =
                      IF endpoint[j] = "analyze-vocals" /\ out.response.status = 200
                      THEN out.response.report ELSE @]
           /\ Proceed(j, out)
    /\ UNCHANGED <<endpoint, request, input_dir, output_dir, fs, transfer, released,
                   warnings, launches, cleanup_call>>

(***************************************************************************)
(* The deadline elapses first: subprocess.run kills the child and raises   *)
(* TimeoutExpired, and the handler's except clause runs.                   *)
(***************************************************************************)
ToolTimeout(j) ==
    /\ pc[j] = "running"
    /\ tool' = [tool EXCEPT ![j] = ToolStateOnTimeout]
    /\ Proceed(j, IF endpoint[j] = "separate-vocals"
                  THEN SeparateOnTimeout
                  ELSE AnalyzeOnTimeout(input_dir[j], output_dir[j]))
    /\ UNCHANGED <<endpoint, request, input_dir, output_dir, fs, result, walk,
                   transfer, released, warnings, launches, analysis_result,
                   cleanup_call>>

(***************************************************************************)
(* cleanup_temp_files(input_dir), in a handler or in the close callback.   *)
(* Other requests may run between this call and the next.                  *)
(***************************************************************************)
ReleaseInput(j, env) ==
    /\ pc[j] \in {"cleanup_input", "close_input"}
    /\ \E rm_ok \in env.rms :
        LET call == cleanup_temp_files(fs, input_dir[j], rm_ok)
        IN /\ fs' = call.dirs
           /\ warnings' = [warnings EXCEPT ![j] = @ + call.warned]
    /\ released' = [released EXCEPT ![j].input = @ + 1]
    /\ pc' = [pc EXCEPT ![j] = IF pc[j] = "cleanup_input" THEN "cleanup_output"
                                                          ELSE "close_output"]
    /\ UNCHANGED <<endpoint, request, input_dir, output_dir, tool, result, walk,
                   located, searched, pending, response, on_close, transfer,
                   launches, analysis_result, cleanup_call>>

(***************************************************************************)
(* cleanup_temp_files(output_dir); the handler then returns its response,  *)
(* the close callback ends.                                                *)
(***************************************************************************)
ReleaseOutput(j, env) ==
    /\ pc[j] \in {"cleanup_output", "close_output"}
    /\ \E rm_ok \in env.rms :
        LET call == cleanup_temp_files(fs, output_dir[j], rm_ok)
        IN /\ fs' = call.dirs
           /\ warnings' = [warnings EXCEPT ![j] = @ + call.warned]
    /\ released' = [released EXCEPT ![j].output = @ + 1]
    /\ IF pc[j] = "cleanup_output"
       THEN Return(j, pending[j])
       ELSE /\ pc' = [pc EXCEPT ![j] = "done"]
            /\ UNCHANGED <<response, on_close>>
    /\ UNCHANGED <<endpoint, request, input_dir, output_dir, tool, result, walk,
                   located, searched, pending, transfer, launches, analysis_result,
                   cleanup_call>>

(***************************************************************************)
(* The transfer of the file response ends: every byte was sent, or the     *)
(* client went away.                                                       *)
(***************************************************************************)
TransferEnd(j, env) ==
    /\ pc[j] = "sending"
    /\ \E how \in env.transfers :
        transfer' = [transfer EXCEPT ![j] = how]
    /\ pc' = [pc EXCEPT ![j] = "sent"]
    /\ UNCHANGED <<endpoint, request, input_dir, output_dir, fs, tool, result, walk,
                   located, searched, pending, response, on_close, released,
                   warnings, launches, analysis_result, cleanup_call>>

(***************************************************************************)
(* cleanup(), the function of lines 152-155, is entered.  The handler only *)
(* registers it with response.call_on_close: nothing in the program calls  *)
(* it, and whether and when the server that sends the response does so is  *)
(* outside the program.  The step is therefore possible once the transfer  *)
(* is over and never required: a request may stay in "sent" for ever, and  *)
(* no specification below assumes that it does not.                        *)
(***************************************************************************)
cleanup(j) ==
    /\ pc[j] = "sent"
    /\ on_close[j]
    /\ pc' = [pc EXCEPT ![j] = "close_input"]
    /\ UNCHANGED <<endpoint, request, input_dir, output_dir, fs, tool, result, walk,
                   located, searched, pending, response, on_close, transfer,
                   released, warnings, launches, analysis_result, cleanup_call>>

(***************************************************************************)
(* Specifications.  Spec follows one request through every output tree of  *)
(* the bound; requests share nothing but the name space of mkdtemp.        *)
(***************************************************************************)
SoloJobs == {MinOf(Jobs)}

\* every upload, every outcome of mkdtemp, file.save, the tool, rmtree and the
\* transfer
AnyEnv ==
    [endpoints |-> Endpoints,
     requests |-> Requests,
     mkdtemp_ok |-> BOOLEAN,
     saves |-> {"started", "save_error"},
     results |-> ToolResults,
     trees |-> Trees,
     rms |-> BOOLEAN,
     transfers |-> {"complete", "abort"}]

Next ==
    \E j \in SoloJobs :
        \/ Receive(j, AnyEnv)
        \/ Stage(j, AnyEnv)
        \/ ToolLaunchError(j)
        \/ ToolExit(j, AnyEnv)
        \/ ToolTimeout(j)
        \/ ReleaseInput(j, AnyEnv)
        \/ ReleaseOutput(j, AnyEnv)
        \/ TransferEnd(j, AnyEnv)
        \/ cleanup(j)

Spec == Init /\ [][Next]_vars

(***************************************************************************)
(* Vocabulary of the properties.                                           *)
(***************************************************************************)
\* the request has returned its response and nothing of it is still running
Finished(j) == pc[j] = "done"

\* the handler created both directories of its workspace
Acquired(j) == input_dir[j] # NoDir /\ output_dir[j] # NoDir

ReleasedOnce(j) == released[j] = [input |-> 1, output |-> 1]
NotReleased(j) == released[j] = [input |-> 0, output |-> 0]

\* the files of job j's output tree, in traversal order
EntriesOf(j) == WalkEntries(output_dir[j], walk[j])

\* the file name of a path of job j's output tree
NameOf(j, path) ==
    LET e == EntriesOf(j)
    IN e[CHOOSE k \in 1..Len(e) : e[k].full_path = path].file_name

\* the paths of job j's output tree whose file name is exactly `name`
PathsNamed(j, name) ==
    LET e == EntriesOf(j)
    IN { e[k].full_path : k \in { i \in 1..Len(e) : e[i].file_name = name } }

\* an audio extension, whatever its case
HasAudioExtension(name) ==
    EndsWith(Lower(name), S_mp3) \/ EndsWith(Lower(name), S_wav)

\* the success responses: the file of /separate-vocals, the report of /analyze-vocals
Succeeded(j) ==
    \/ endpoint[j] = "separate-vocals" /\ response[j].status = 200
    \/ endpoint[j] = "analyze-vocals" /\ response[j].status = 200
                                      /\ response[j].report.success

(***************************************************************************)
(* C1: every request that acquired its workspace has released input_dir    *)
(* and output_dir exactly once when it is complete, whatever the exit      *)
(* path.                                                                   *)
(***************************************************************************)
C1_ReleasedOnceOnEveryPath ==
    \A j \in Jobs : (Finished(j) /\ Acquired(j)) => ReleasedOnce(j)

(***************************************************************************)
(* C2: in /separate-vocals the name-matching rule never selects a file     *)
(* whose name contains "no_vocals" as the vocal artifact.                  *)
(***************************************************************************)
C2_NoVocalsNeverPrimary ==
    \A j \in Jobs :
        (endpoint[j] = "separate-vocals" /\ located[j].via = "name")
            => ~Contains(Lower(NameOf(j, located[j].vocal_file)), S_no_vocals)

(***************************************************************************)
(* C3: when the tool exited 0 and the tree holds one vocals.mp3 and one    *)
(* no_vocals.mp3, the report of /analyze-vocals has vocal_extracted, the   *)
(* vocal size of vocals.mp3 and the accompaniment size of no_vocals.mp3.   *)
(***************************************************************************)
C3_ReportSizesFromBothStems ==
    \A j \in Jobs :
        (/\ endpoint[j] = "analyze-vocals"
         /\ tool[j] = "Success"
         /\ Finished(j)
         /\ Cardinality(PathsNamed(j, S_vocals_mp3)) = 1
         /\ Cardinality(PathsNamed(j, S_no_vocals_mp3)) = 1)
            => /\ response[j].status = 200
               /\ response[j].report.vocal_extracted
               /\ response[j].report.vocal_size_mb = RoundMB(F_vocals_mp3.size)
               /\ response[j].report.accompaniment_size_mb
                      = RoundMB(F_no_vocals_mp3.size)
               /\ response[j].report.accompaniment_size_mb > 0

(***************************************************************************)
(* C4: when the tool exited 0 and Vocals.WAV is the one file of the tree   *)
(* with "vocals" in its name, /separate-vocals selects it as the vocal     *)
(* artifact and does not answer "Vocal stem extraction failed".            *)
(***************************************************************************)
C4_UpperCaseExtensionSelected ==
    \A j \in Jobs :
        (/\ endpoint[j] = "separate-vocals"
         /\ tool[j] = "Success"
         /\ searched[j]
         /\ PathsNamed(j, F_Vocals_WAV.name) # {}
         /\ \A k \in 1..Len(EntriesOf(j)) :
                Contains(Lower(EntriesOf(j)[k].file_name), S_vocals)
                    => EntriesOf(j)[k].file_name = F_Vocals_WAV.name)
            => /\ located[j].vocal_file \in PathsNamed(j, F_Vocals_WAV.name)
               /\ response[j].status = 200

(***************************************************************************)
(* C5: a request whose tool invocation exceeded the timeout is answered    *)
(* 408 "Processing timeout - file too large", on both endpoints.           *)
(***************************************************************************)
C5_TimeoutAnswers408 ==
    \A j \in Jobs :
        (tool[j] = "Timeout" /\ Finished(j))
            => /\ response[j].status = 408
               /\ response[j].error = "Processing timeout - file too large"

(***************************************************************************)
(* C6: a request whose tool exited non-zero is answered 500 with the       *)
(* tool's stderr in the response, without any artifact search, on both     *)
(* endpoints.                                                              *)
(***************************************************************************)
C6_ToolFailureAnswers500WithStderr ==
    \A j \in Jobs :
        (tool[j] = "ToolFailure" /\ Finished(j))
            => /\ response[j].status = 500
               /\ response[j].details = result[j].stderr
               /\ ~searched[j]

(***************************************************************************)
(* C7: while the file response of /separate-vocals is being transferred,   *)
(* neither directory of the job has been released: both still exist and    *)
(* cleanup_temp_files was not called on them.                              *)
(***************************************************************************)
C7_NoReleaseBeforeTransferEnds ==
    \A j \in Jobs :
        (endpoint[j] = "separate-vocals" /\ response[j].status = 200
                                         /\ transfer[j] = None)
            => /\ NotReleased(j)
               /\ input_dir[j] \in fs
               /\ output_dir[j] \in fs

C7_Witness ==
    \E j \in Jobs : /\ pc[j] = "sending"
                    /\ response[j].status = 200
                    /\ response[j].file # NoPath
                    /\ on_close[j]

(***************************************************************************)
(* C9: a request without an `audio` field is answered 400 "No audio file   *)
(* provided", one with an empty filename 400 "No file selected"; neither   *)
(* creates a directory nor invokes the tool, on both endpoints.            *)
(***************************************************************************)
C9_InputErrorCreatesNoJob ==
    \A j \in Jobs :
        (pc[j] # "idle" /\ (~request[j].has_audio \/ request[j].filename = ""))
            => /\ Finished(j)
               /\ response[j] = JsonError(400,
                      IF ~request[j].has_audio THEN "No audio file provided"
                      ELSE "No file selected", None)
               /\ input_dir[j] = NoDir
               /\ output_dir[j] = NoDir
               /\ NotReleased(j)
               /\ launches[j] = 0
               /\ tool[j] = "Idle"

C9_Witness ==
    \E j \in Jobs : /\ Finished(j)
                    /\ endpoint[j] = "analyze-vocals"
                    /\ request[j].has_audio
                    /\ request[j].filename = ""
                    /\ response[j].status = 400

(***************************************************************************)
(* C10: every success response has exactly one selected vocal artifact,    *)
(* and that file has an audio extension (mp3 or wav).                      *)
(***************************************************************************)
C10_SuccessHasOnePrimary ==
    \A j \in Jobs :
        Succeeded(j)
            => /\ located[j].vocal_file # NoPath
               /\ HasAudioExtension(NameOf(j, located[j].vocal_file))

(***************************************************************************)
(* C11: when the tool exited 0 and no file of the output tree has an audio *)
(* extension (so none qualifies as primary or as fallback; the empty tree  *)
(* in particular), /separate-vocals answers 500 "Vocal stem extraction     *)
(* failed", which is not the tool-failure error, and never 200.            *)
(***************************************************************************)
NoArtifactCandidate(j) ==
    \A k \in 1..Len(EntriesOf(j)) : ~HasAudioExtension(EntriesOf(j)[k].file_name)

C11_NoArtifactAnswers500 ==
    \A j \in Jobs :
        (/\ endpoint[j] = "separate-vocals"
         /\ tool[j] = "Success"
         /\ NoArtifactCandidate(j))
            => /\ response[j] = JsonError(500, "Vocal stem extraction failed", None)
               /\ response[j].error # "Vocal separation failed"
               /\ located[j].vocal_file = NoPath
               /\ pc[j] = "done"

C11_Witness ==
    \E j \in Jobs : /\ endpoint[j] = "separate-vocals"
                    /\ tool[j] = "Success"
                    /\ EntriesOf(j) # <<>>
                    /\ NoArtifactCandidate(j)
                    /\ response[j].status = 500

(***************************************************************************)
(* C12: an invocation that exceeds the timeout is terminated and its       *)
(* outcome is Timeout: no request has returned a response or released its  *)
(* workspace while its tool process is still running.                      *)
(***************************************************************************)
C12_NoFinishWhileToolRuns ==
    \A j \in Jobs :
        /\ tool[j] = "Running"
              => /\ pc[j] = "running"
                 /\ response[j] = NoResponse
                 /\ NotReleased(j)
        /\ (\/ response[j].status = 408
            \/ response[j].details = TimeoutMessage(input_dir[j], output_dir[j]))
              => tool[j] = "Timeout"

C12_Witness ==
    \E j \in Jobs : /\ tool[j] = "Timeout"
                    /\ Finished(j)
                    /\ response[j].status = 408
                    /\ ReleasedOnce(j)

(***************************************************************************)
(* C13: on the report path of /analyze-vocals the sizes of the report are  *)
(* read while both directories still exist and before any release, and     *)
(* both directories have been released, once and not deferred, when the    *)
(* 200 response is returned.                                               *)
(***************************************************************************)
\* the size of a located file in hundredths of a megabyte, 0 for no file
ReportedSize(j, path) ==
    IF path = NoPath THEN 0 ELSE RoundMB(GetSize(EntriesOf(j), path))

C13_ReportReleasesBeforeReturn ==
    \A j \in Jobs :
        endpoint[j] = "analyze-vocals" =>
            /\ (tool[j] = "Success" /\ pc[j] = "cleanup_input")
                  => /\ NotReleased(j)
                     /\ input_dir[j] \in fs
                     /\ output_dir[j] \in fs
                     /\ response[j] = NoResponse
                     /\ pending[j].response.report = analysis_result[j]
                     /\ analysis_result[j].vocal_size_mb
                            = ReportedSize(j, located[j].vocal_file)
                     /\ analysis_result[j].accompaniment_size_mb
                            = ReportedSize(j, located[j].accompaniment_file)
            /\ (tool[j] = "Success" /\ pc[j] = "cleanup_output")
                  => /\ released[j] = [input |-> 1, output |-> 0]
                     /\ response[j] = NoResponse
            /\ response[j].status = 200
                  => /\ Finished(j)
                     /\ ReleasedOnce(j)
                     /\ ~on_close[j]
                     /\ response[j].report = analysis_result[j]

C13_Witness ==
    \E j \in Jobs : /\ endpoint[j] = "analyze-vocals"
                    /\ response[j].status = 200
                    /\ response[j].report.vocal_size_mb > 0
                    /\ ReleasedOnce(j)
                    /\ input_dir[j] \notin fs
                    /\ output_dir[j] \notin fs

(***************************************************************************)
(* ConcSpec: every request of the bound in flight at once, in any          *)
(* interleaving of their steps, over the output tree that holds the vocal  *)
(* stem.  mkdtemp may hand out a released name again, also while the       *)
(* request that released it is still between its two cleanup_temp_files    *)
(* calls.  rmtree succeeds: a directory it fails to remove stays in place  *)
(* and its name is never handed out again.                                 *)
(***************************************************************************)
ConcTrees ==
    { t \in Trees : t[1].files = <<>> /\ t[2].files = <<F_vocals_mp3>> }

\* valid uploads to /separate-vocals, whose paths make every sequence of
\* mkdtemp and cleanup_temp_files calls the two handlers have: release in the
\* handler (timeout, launch error), release in the close callback (file
\* response), no release (tool failure); mkdtemp, file.save, rmtree and the
\* transfer succeed
ConcEnv ==
    [endpoints |-> {"separate-vocals"},
     requests |-> { r \in Requests : ValidateUpload(r) = NoResponse },
     mkdtemp_ok |-> {TRUE},
     saves |-> {"started"},
     results |-> ToolResults,
     trees |-> ConcTrees,
     rms |-> {TRUE},
     transfers |-> {"complete"}]

ConcNext ==
    \E j \in Jobs :
        \/ Receive(j, ConcEnv)
        \/ Stage(j, ConcEnv)
        \/ ToolLaunchError(j)
        \/ ToolExit(j, ConcEnv)
        \/ ToolTimeout(j)
        \/ ReleaseInput(j, ConcEnv)
        \/ ReleaseOutput(j, ConcEnv)
        \/ TransferEnd(j, ConcEnv)
        \/ cleanup(j)

ConcSpec == Init /\ [][ConcNext]_vars

(***************************************************************************)
(* C14: the directories that the requests in flight hold (created by the   *)
(* request and not yet passed to cleanup_temp_files) are pairwise          *)
(* disjoint, a request's input_dir differs from its output_dir, and every  *)
(* directory a request in flight holds exists: no release of another       *)
(* request has removed it.                                                 *)
(***************************************************************************)
Active(j) == pc[j] \notin {"idle", "done"}

HeldDirs(j) ==
    (IF released[j].input = 0 THEN {input_dir[j]} ELSE {})
        \cup (IF released[j].output = 0 THEN {output_dir[j]} ELSE {})

C14_WorkspacesDisjoint ==
    \A j \in Jobs :
        Active(j)
            => /\ input_dir[j] # output_dir[j]
               /\ HeldDirs(j) \ {NoDir} \subseteq fs
               /\ UPLOAD_FOLDER \notin HeldDirs(j)
               /\ \A k \in Jobs \ {j} :
                      Active(k) => (HeldDirs(j) \cap HeldDirs(k)) \ {NoDir} = {}

\* a request between its two cleanup calls, and another that was handed the
\* name just released
C14_Witness ==
    \E j \in Jobs, k \in Jobs :
        /\ j # k
        /\ pc[j] = "cleanup_output"
        /\ Active(k) /\ Acquired(k)
        /\ input_dir[j] \in {input_dir[k], output_dir[k]}
        /\ HeldDirs(k) \subseteq fs

(***************************************************************************)
(* CleanupSpec: cleanup_temp_files on its own.  It starts from any set of  *)
(* existing directories and any argument, and calls the function up to     *)
(* MaxCalls times on that argument; each call of shutil.rmtree succeeds or *)
(* raises.                                                                 *)
(***************************************************************************)
MaxCalls == 2

CleanupInit ==
    /\ NoRequests
    /\ \E ds \in SUBSET DirNames, d \in DirNames :
        cleanup_call = [NoCall EXCEPT !.before = ds, !.dirs = ds, !.once = ds,
                                      !.folder_path = d]

CallCleanup ==
    /\ cleanup_call.folder_path # NoDir
    /\ cleanup_call.calls < MaxCalls
    /\ \E rm_ok \in BOOLEAN :
        LET r == cleanup_temp_files(cleanup_call.dirs, cleanup_call.folder_path, rm_ok)
        IN cleanup_call' =
               [cleanup_call EXCEPT !.dirs = r.dirs,
                                    !.once = IF cleanup_call.calls = 0 THEN r.dirs ELSE @,
                                    !.calls = @ + 1,
                                    !.rm = Append(@, rm_ok),
                                    !.warned = @ + r.warned,
                                    !.raised = @ \/ r.raised]
    /\ UNCHANGED <<pc, endpoint, request, input_dir, output_dir, fs, tool, result,
                   walk, located, searched, pending, response, on_close, transfer,
                   released, warnings, launches, analysis_result>>

CleanupNext == CallCleanup

CleanupSpec == CleanupInit /\ [][CleanupNext]_vars

(***************************************************************************)
(* C15: cleanup_temp_files never raises.  On a directory that does not     *)
(* exist it changes nothing and logs nothing; when the removal fails it    *)
(* logs one warning per failed call and leaves the directories as they     *)
(* were; and calling it again reaches no state that one call could not     *)
(* reach: after a call that removed the directory, or when the removal     *)
(* fails again, the directories are those left by the first call.          *)
(***************************************************************************)
\* the directories one call can leave, from the directories `before`
OneCallStates(before, folder_path) ==
    { cleanup_temp_files(before, folder_path, rm_ok).dirs : rm_ok \in BOOLEAN }

C15_CleanupNeverRaisesIdempotent ==
    LET c == cleanup_call
        failed == { i \in 1..c.calls : ~c.rm[i] }
    IN c.calls >= 1 =>
        /\ ~c.raised
        /\ c.folder_path \notin c.before => (c.dirs = c.before /\ c.warned = 0)
        /\ (c.folder_path \in c.before /\ ~c.rm[1])
               => (c.once = c.before /\ c.warned >= 1)
        /\ (c.folder_path \in c.before /\ failed = 1..c.calls)
               => (c.dirs = c.before /\ c.warned = c.calls)
        /\ c.dirs \in OneCallStates(c.before, c.folder_path)
        /\ (c.folder_path \notin c.before \/ c.rm[1]) => c.dirs = c.once
        /\ (\A i \in 1..c.calls : c.rm[i] = c.rm[1]) => c.dirs = c.once

C15_Witness ==
    /\ cleanup_call.calls = 2
    /\ cleanup_call.folder_path \in cleanup_call.before
    /\ cleanup_call.rm = <<TRUE, FALSE>>
    /\ cleanup_call.dirs = cleanup_call.once
    /\ cleanup_call.warned = 0

(***************************************************************************)
(* C16: in /separate-vocals, whenever a file of the output tree matches    *)
(* the primary name rule (name contains "vocals" and not "no_vocals",      *)
(* whatever the case, with an audio extension), the selected artifact is   *)
(* such a file and was not selected by the fallback; when none does, the   *)
(* selected artifact is the first file with an audio extension in          *)
(* traversal order.                                                        *)
(***************************************************************************)
IsPrimaryName(name) ==
    /\ Contains(Lower(name), S_vocals)
    /\ ~Contains(Lower(name), S_no_vocals)
    /\ HasAudioExtension(name)

C16_FallbackOnlyWithoutNameMatch ==
    \A j \in Jobs :
        (endpoint[j] = "separate-vocals" /\ searched[j]) =>
            LET e == EntriesOf(j)
                primary == { k \in 1..Len(e) : IsPrimaryName(e[k].file_name) }
                audio == { k \in 1..Len(e) : HasAudioExtension(e[k].file_name) }
            IN /\ located[j].via = "fallback" => primary = {}
               /\ primary # {}
                      => located[j].vocal_file \in { e[k].full_path : k \in primary }
               /\ (primary = {} /\ audio # {})
                      => located[j].vocal_file = e[MinOf(audio)].full_path

(***************************************************************************)
(* C17: each request's tool goes Idle -> Running -> one of Success,        *)
(* ToolFailure, Timeout, LaunchError: subprocess.run is called at most     *)
(* once per request, a request that called it and is complete has exactly  *)
(* one terminal outcome, and a terminal outcome never changes.             *)
(***************************************************************************)
TerminalOutcomes == {"Success", "ToolFailure", "Timeout", "LaunchError"}

ToolEdge(from, to) ==
    \/ from = to
    \/ from = "Idle" /\ to = "Running"
    \/ from = "Running" /\ to \in TerminalOutcomes

C17_ToolRunsOnceToOneOutcome ==
    [][\A j \in Jobs :
          /\ ToolEdge(tool[j], tool'[j])
          /\ launches'[j] <= 1
          /\ (tool[j] = "Idle") = (launches[j] = 0)
          /\ (launches'[j] = 1 /\ pc'[j] # "running") => tool'[j] \in TerminalOutcomes
          /\ (launches'[j] = 1 /\ pc'[j] = "running") => tool'[j] = "Running"]_vars

C17_Witness ==
    \E j \in Jobs : /\ Finished(j)
                    /\ launches[j] = 1
                    /\ tool[j] = "ToolFailure"
                    /\ result[j].returncode # 0

(***************************************************************************)
(* C18: cleanup_temp_files is called at most once on a request's input_dir *)
(* and at most once on its output_dir, on every path of both endpoints; a  *)
(* request whose cleanup is registered with call_on_close has not been     *)
(* cleaned up by an exception handler, and once cleanup() has returned no  *)
(* further release follows.                                                *)
(***************************************************************************)
C18_ReleasedAtMostOnce ==
    \A j \in Jobs :
        /\ released[j].input <= 1
        /\ released[j].output <= 1
        /\ (on_close[j] /\ pc[j] \in {"sending", "sent"}) => NotReleased(j)
        /\ (on_close[j] /\ Finished(j)) => ReleasedOnce(j)

C18_Witness ==
    \E j \in Jobs : /\ on_close[j]
                    /\ Finished(j)
                    /\ transfer[j] = "abort"
                    /\ ReleasedOnce(j)

(***************************************************************************)
(* C19: while a request's tool is Running its workspace has not been       *)
(* released and both directories exist; and a handler has walked the       *)
(* output tree only after its tool reached Success, that is after          *)
(* subprocess.run returned exit code 0.                                    *)
(***************************************************************************)
C19_NoReleaseWhileRunningSearchAfterSuccess ==
    \A j \in Jobs :
        /\ tool[j] = "Running"
               => /\ NotReleased(j)
                  /\ input_dir[j] \in fs
                  /\ output_dir[j] \in fs
                  /\ ~searched[j]
        /\ searched[j]
               => /\ tool[j] = "Success"
                  /\ result[j].returned
                  /\ result[j].returncode = 0

C19_Witness ==
    \E j \in Jobs : /\ searched[j]
                    /\ tool[j] = "Success"
                    /\ located[j].vocal_file # NoPath
                    /\ ReleasedOnce(j)

====
